---------------------------- MODULE Spec2Model ----------------------------
(***************************************************************************)
(* A model of scripts/find_relevant_skills.py: the relevance scorer        *)
(* (calculate_relevance over rapidfuzz's default_process, partial_ratio    *)
(* and token_set_ratio) and the pipeline of main (entity extraction, noise *)
(* filtering, ranking, bundle expansion, console summary, report).         *)
(*                                                                         *)
(* Strings are sequences of one-character strings.  Scores are exact       *)
(* rationals <<numerator, denominator>> in lowest terms: the code computes *)
(* them in double precision, and the thresholds it compares them with      *)
(* (55.0, 65.0, 75.0, top - 20) are far from any rounding error of the     *)
(* scores the bounded inputs below produce.                                *)
(***************************************************************************)
EXTENDS Integers, Sequences, FiniteSets

(***************************************************************************)
(* Bounds of the model.                                                    *)
(***************************************************************************)
MaxQueryLen == 3

MaxNameLen == 2

MaxTriggerLen == 2

MaxSkills == 3

MaxTopN == 2

(***************************************************************************)
(* Characters.  CodePoints lists the characters the model uses in the      *)
(* order of their code points, which is the order Python's sorted() and    *)
(* str comparison use.                                                     *)
(***************************************************************************)
CodePoints ==
    << "\n", " ", ",", "-",
       "0", "1", "2", "3", "4", "5", "6", "7", "8", "9", ";",
       "A", "B", "C", "D", "E", "F", "G", "H", "I", "J", "K", "L", "M",
       "N", "O", "P", "Q", "R", "S", "T", "U", "V", "W", "X", "Y", "Z",
       "a", "b", "c", "d", "e", "f", "g", "h", "i", "j", "k", "l", "m",
       "n", "o", "p", "q", "r", "s", "t", "u", "v", "w", "x", "y", "z" >>

Ord(c) == CHOOSE i \in 1..Len(CodePoints) : CodePoints[i] = c

UpperCase == {CodePoints[i] : i \in 16..41}

LowerCase == {CodePoints[i] : i \in 42..67}

Digits == {CodePoints[i] : i \in 5..14}

IsAlnum(c) == c \in UpperCase \/ c \in LowerCase \/ c \in Digits

IsSpace(c) == c \in {" ", "\n"}

ToLower(c) == IF c \in UpperCase THEN CodePoints[Ord(c) + 26] ELSE c

(***************************************************************************)
(* String helpers: str.strip, str.split (on whitespace), " ".join, the     *)
(* order of str comparison.                                                *)
(***************************************************************************)
RECURSIVE LStrip(_)
LStrip(s) ==
    IF s # <<>> /\ IsSpace(Head(s)) THEN LStrip(Tail(s)) ELSE s

RECURSIVE RStrip(_)
RStrip(s) ==
    IF s # <<>> /\ IsSpace(s[Len(s)]) THEN RStrip(SubSeq(s, 1, Len(s) - 1)) ELSE s

Strip(s) == RStrip(LStrip(s))

\* s.split(): the maximal runs of non-whitespace characters, in order.
RECURSIVE SplitFrom(_, _, _)
SplitFrom(s, i, cur) ==
    IF i > Len(s)
    THEN IF cur = <<>> THEN <<>> ELSE <<cur>>
    ELSE IF IsSpace(s[i])
         THEN (IF cur = <<>> THEN <<>> ELSE <<cur>>) \o SplitFrom(s, i + 1, <<>>)
         ELSE SplitFrom(s, i + 1, Append(cur, s[i]))

Split(s) == SplitFrom(s, 1, <<>>)

Range(f) == {f[i] : i \in DOMAIN f}

RECURSIVE StrLess(_, _)
StrLess(a, b) ==
    IF b = <<>> THEN FALSE
    ELSE IF a = <<>> THEN TRUE
    ELSE IF Head(a) = Head(b) THEN StrLess(Tail(a), Tail(b))
    ELSE Ord(Head(a)) < Ord(Head(b))

\* sorted(tokens) for a set of distinct strings
RECURSIVE Sorted(_)
Sorted(S) ==
    IF S = {} THEN <<>>
    ELSE LET m == CHOOSE t \in S : \A u \in S : u = t \/ StrLess(t, u)
         IN  <<m>> \o Sorted(S \ {m})

\* " ".join(words)
RECURSIVE Join(_)
Join(words) ==
    IF words = <<>> THEN <<>>
    ELSE IF Len(words) = 1 THEN words[1]
    ELSE words[1] \o <<" ">> \o Join(Tail(words))

(***************************************************************************)
(* Exact rationals <<n, d>>, d > 0, in lowest terms.                       *)
(***************************************************************************)
RECURSIVE GCD(_, _)
GCD(a, b) == IF b = 0 THEN a ELSE GCD(b, a % b)

Abs(x) == IF x < 0 THEN -x ELSE x

Rat(n, d) ==
    LET g == GCD(Abs(n), d)
    IN  IF n = 0 THEN <<0, 1>> ELSE <<n \div g, d \div g>>

Whole(n) == <<n, 1>>

RatAdd(x, y) == Rat(x[1] * y[2] + y[1] * x[2], x[2] * y[2])

RatSub(x, y) == Rat(x[1] * y[2] - y[1] * x[2], x[2] * y[2])

RatMul(x, y) == Rat(x[1] * y[1], x[2] * y[2])

RatLess(x, y) == x[1] * y[2] < y[1] * x[2]

RatLeq(x, y) == x[1] * y[2] <= y[1] * x[2]

RatMax(x, y) == IF RatLess(x, y) THEN y ELSE x

RatMaxOf(S) == CHOOSE x \in S : \A y \in S : RatLeq(y, x)

(***************************************************************************)
(* rapidfuzz (version 3: no default preprocessing of either argument).     *)
(***************************************************************************)

\* utils.default_process: lower-cases, turns every non-alphanumeric
\* character into a space, strips the ends.
default_process(s) ==
    Strip([i \in 1..Len(s) |-> IF IsAlnum(s[i]) THEN ToLower(s[i]) ELSE " "])

Max2(a, b) == IF a < b THEN b ELSE a

\* One row of the longest-common-subsequence table: prev is the row of the
\* previous character of a, cur the row being built (column 0 first), so
\* that the next column to fill is Len(cur).
RECURSIVE LCSRow(_, _, _, _)
LCSRow(prev, x, b, cur) ==
    IF Len(cur) > Len(b) THEN cur
    ELSE LET j == Len(cur)
         IN  LCSRow(prev, x, b,
                    Append(cur, IF x = b[j] THEN prev[j] + 1
                                ELSE Max2(prev[j + 1], cur[j])))

\* The table row by row: rows[i + 1] is the row of the first i characters
\* of a.
RECURSIVE LCSTable(_, _, _)
LCSTable(a, b, rows) ==
    IF Len(rows) > Len(a) THEN rows
    ELSE LCSTable(a, b,
                  Append(rows, LCSRow(rows[Len(rows)], a[Len(rows)], b, <<0>>)))

\* The length of a longest common subsequence of a and b.
LCS(a, b) ==
    LCSTable(a, b, <<[j \in 1..(Len(b) + 1) |-> 0]>>)[Len(a) + 1][Len(b) + 1]

\* Indel distance: insertions and deletions turning a into b.
indel_distance(a, b) == Len(a) + Len(b) - 2 * LCS(a, b)

\* Indel.normalized_similarity, in [0, 1]; 1 for two empty strings.
indel_normalized_similarity(a, b) ==
    IF Len(a) + Len(b) = 0 THEN Whole(1)
    ELSE RatSub(Whole(1), Rat(indel_distance(a, b), Len(a) + Len(b)))

\* _partial_ratio_impl(s1, s2), Len(s1) <= Len(s2): the best similarity of
\* s1 with a window of s2: a proper prefix shorter than s1, a window as long
\* as s1, or a suffix no longer than s1; a window whose boundary character
\* does not occur in s1 is skipped (every window, when s1 is empty).
partial_ratio_impl(s1, s2) ==
    IF s1 = <<>> THEN Whole(0) ELSE
    LET l1 == Len(s1)
        l2 == Len(s2)
        cs == Range(s1)
        prefixes == {SubSeq(s2, 1, i) : i \in {k \in 1..(l1 - 1) : s2[k] \in cs}}
        middles  == {SubSeq(s2, i + 1, i + l1) :
                        i \in {k \in 0..(l2 - l1 - 1) : s2[k + l1] \in cs}}
        suffixes == {SubSeq(s2, i + 1, l2) :
                        i \in {k \in (l2 - l1)..(l2 - 1) : s2[k + 1] \in cs}}
        sims == {indel_normalized_similarity(s1, w) :
                    w \in prefixes \cup middles \cup suffixes}
    IN  RatMul(Whole(100), RatMaxOf(sims \cup {Whole(0)}))

\* fuzz.partial_ratio
partial_ratio(s1, s2) ==
    IF s1 = <<>> /\ s2 = <<>> THEN Whole(100)
    ELSE LET shorter == IF Len(s1) <= Len(s2) THEN s1 ELSE s2
             longer  == IF Len(s1) <= Len(s2) THEN s2 ELSE s1
             res     == partial_ratio_impl(shorter, longer)
         IN  IF res # Whole(100) /\ Len(s1) = Len(s2)
             THEN RatMax(res, partial_ratio_impl(longer, shorter))
             ELSE res

\* _norm_distance (scorecutoff = 0)
norm_distance(dist, lensum) ==
    IF lensum = 0 THEN Whole(100)
    ELSE RatSub(Whole(100), Rat(100 * dist, lensum))

\* fuzz.token_set_ratio
token_set_ratio(s1, s2) ==
    IF s1 = <<>> \/ s2 = <<>> THEN Whole(0)
    ELSE
    LET tokens_a == Range(Split(s1))
        tokens_b == Range(Split(s2))
        intersect == tokens_a \cap tokens_b
        diff_ab == tokens_a \ tokens_b
        diff_ba == tokens_b \ tokens_a
        diff_ab_joined == Join(Sorted(diff_ab))
        diff_ba_joined == Join(Sorted(diff_ba))
        ab_len == Len(diff_ab_joined)
        ba_len == Len(diff_ba_joined)
        sect_len == Len(Join(Sorted(intersect)))
        sep == IF sect_len # 0 THEN 1 ELSE 0
        sect_ab_len == sect_len + sep + ab_len
        sect_ba_len == sect_len + sep + ba_len
        result == norm_distance(indel_distance(diff_ab_joined, diff_ba_joined),
                                sect_ab_len + sect_ba_len)
        sect_ab_ratio == norm_distance(sep + ab_len, sect_len + sect_ab_len)
        sect_ba_ratio == norm_distance(sep + ba_len, sect_len + sect_ba_len)
    IN  IF tokens_a = {} \/ tokens_b = {} THEN Whole(0)
        ELSE IF intersect # {} /\ (diff_ab = {} \/ diff_ba = {}) THEN Whole(100)
        ELSE IF sect_len = 0 THEN result
        ELSE RatMax(result, RatMax(sect_ab_ratio, sect_ba_ratio))

(***************************************************************************)
(* The catalog's records and the scorer.                                   *)
(***************************************************************************)
NOISE_THRESHOLD == 55

HIGH_CONFIDENCE == 75

\* load_catalog_skills builds each Skill with
\* full_text = f"{name} {description} {tags} {triggers}".
Skill(name, description, tags, triggers) ==
    [name |-> name, description |-> description, tags |-> tags,
     triggers |-> triggers,
     full_text |-> name \o <<" ">> \o description \o <<" ">> \o tags
                        \o <<" ">> \o triggers]

\* A variant of calculate_relevance whose weights sum to 1.2.
calculate_relevance_overweight(query, skill) ==
    LET q == default_process(query)
        name_score == partial_ratio(q, skill.name)
        trigger_score == token_set_ratio(q, skill.triggers)
        text_score == token_set_ratio(q, skill.full_text)
    IN  RatAdd(RatAdd(RatMul(name_score, Rat(4, 10)),
                      RatMul(trigger_score, Rat(4, 10))),
               RatMul(text_score, Rat(4, 10)))

\* 40% name, 40% triggers, 20% full text
calculate_relevance(query, skill) ==
    LET q == default_process(query)
        name_score == partial_ratio(q, skill.name)
        trigger_score == token_set_ratio(q, skill.triggers)
        text_score == token_set_ratio(q, skill.full_text)
    IN  RatAdd(RatAdd(RatMul(name_score, Rat(4, 10)),
                      RatMul(trigger_score, Rat(4, 10))),
               RatMul(text_score, Rat(2, 10)))

\* class Bundle
Bundle(name, description, skills) ==
    [name |-> name, description |-> description, skills |-> skills]

\* class SearchResult.  ref is the position in the catalog of the Skill
\* object the result points to: it tells apart two catalog entries that are
\* equal field by field.
SearchResult(ref, skill, score) ==
    [ref |-> ref, skill |-> skill, score |-> score]

(***************************************************************************)
(* Input processing.                                                       *)
(***************************************************************************)

\* The characters extract_search_entities turns into line breaks.  (The
\* fourth delimiter of the source, the three-character bullet glyph, has no
\* character in CodePoints.)
Delimiters == {",", ";", "-"}

\* text.split("\n"): the segments between line breaks, empty ones included.
RECURSIVE SplitLines(_, _)
SplitLines(s, cur) ==
    IF s = <<>> THEN <<cur>>
    ELSE IF Head(s) = "\n" THEN <<cur>> \o SplitLines(Tail(s), <<>>)
    ELSE SplitLines(Tail(s), Append(cur, Head(s)))

\* extract_search_entities, up to the order of its result: the distinct
\* stripped non-empty segments.
extract_search_entities(text) ==
    LET normalized == [i \in 1..Len(text) |->
                          IF text[i] \in Delimiters THEN "\n" ELSE text[i]]
    IN  {Strip(line) : line \in Range(SplitLines(normalized, <<>>))} \ {<<>>}

\* list(set(entities)): the elements of S in some order.
Orderings(S) ==
    {order \in [1..Cardinality(S) -> S] : Range(order) = S}

(***************************************************************************)
(* The inputs of the pipeline: catalogs of at most MaxSkills skills of     *)
(* SkillPool, bundle maps over BundlePool, the texts of TextPool.          *)
(***************************************************************************)
SkillPool ==
    { Skill(<<"g","o">>, <<>>, <<>>, <<"g","o">>),
      Skill(<<"g","i","t">>, <<>>, <<>>, <<"g","o"," ","v","c","s">>),
      Skill(<<"c","i">>, <<>>, <<>>, <<>>) }

BundlePool ==
    { Bundle(<<"L","a","n","g">>, <<>>, << <<"g","o">>, <<"r","u","s","t">> >>),
      Bundle(<<"O","p","s">>, <<>>, << <<"g","i","t">>, <<"c","i">> >>) }

TextPool ==
    { <<>>,
      <<"q","q">>,
      <<"G","o",","," ","q","q">>,
      <<"G","o",","," ","g","i","t">>,
      <<"c","i",";","g","i","t">> }

(***************************************************************************)
(* Core logic.                                                             *)
(***************************************************************************)

\* A variant of max_score that looks at the first skill only.
max_score_first(entity, skills) ==
    IF skills # <<>> THEN calculate_relevance(entity, skills[1]) ELSE Whole(0)

\* max(calculate_relevance(entity, s) for s in skills) if skills else 0
max_score(entity, skills) ==
    IF skills # <<>>
    THEN RatMaxOf({calculate_relevance(entity, skills[i]) : i \in DOMAIN skills})
    ELSE Whole(0)

filter_valid_entities(entities, skills) ==
    SelectSeq(entities,
              LAMBDA entity : RatLeq(Whole(NOISE_THRESHOLD), max_score(entity, skills)))

\* The list comprehension of search_skills: one SearchResult per skill, in
\* catalog order.
Matches(entity, skills) ==
    [i \in 1..Len(skills) |->
        SearchResult(i, skills[i], calculate_relevance(entity, skills[i]))]

Reverse(s) == [i \in 1..Len(s) |-> s[Len(s) + 1 - i]]

\* Insertion of x into an ascending list after every element whose key is
\* not greater: the step of a stable sort.
RECURSIVE InsertAscending(_, _)
InsertAscending(sorted, x) ==
    IF sorted = <<>> THEN <<x>>
    ELSE IF RatLess(x.score, sorted[Len(sorted)].score)
         THEN Append(InsertAscending(SubSeq(sorted, 1, Len(sorted) - 1), x),
                     sorted[Len(sorted)])
         ELSE Append(sorted, x)

RECURSIVE StableSortAscending(_)
StableSortAscending(s) ==
    IF s = <<>> THEN <<>>
    ELSE InsertAscending(StableSortAscending(SubSeq(s, 1, Len(s) - 1)), s[Len(s)])

\* A variant of the sort without the first reversal: descending, but equal
\* scores end up in reverse catalog order.
SortByScoreDescending_unstable(matches) ==
    Reverse(StableSortAscending(matches))

\* matches.sort(key=lambda x: x.score, reverse=True): list.sort reverses the
\* list, sorts it stably in ascending order of the key, and reverses it again.
SortByScoreDescending(matches) ==
    Reverse(StableSortAscending(Reverse(matches)))

\* A variant of TopN that keeps one match too many.
TopN_one_more(matches, top_n) ==
    SubSeq(matches, 1, IF top_n + 1 < Len(matches) THEN top_n + 1 ELSE Len(matches))

\* matches[:top_n], top_n > 0
TopN(matches, top_n) ==
    SubSeq(matches, 1, IF top_n < Len(matches) THEN top_n ELSE Len(matches))

search_skills(entities, skills, top_n) ==
    [entity \in Range(entities) |->
        TopN(SortByScoreDescending(Matches(entity, skills)), top_n)]

\* A variant of found_names that uses HIGH_CONFIDENCE as its threshold.
found_names_high_confidence(results) ==
    UNION {{results[e][i].skill.name :
               i \in {j \in DOMAIN results[e] :
                         RatLess(Whole(HIGH_CONFIDENCE), results[e][j].score)}} :
           e \in DOMAIN results}

\* The names of the skills with a kept score above 65.0.
found_names(results) ==
    UNION {{results[e][i].skill.name :
               i \in {j \in DOMAIN results[e] :
                         RatLess(Whole(65), results[e][j].score)}} :
           e \in DOMAIN results}

\* A variant of find_bundled_skills that adds whole bundles.
find_bundled_skills_whole(results, bundles) ==
    LET found == found_names(results)
    IN  UNION {Range(bundles[b].skills) :
                  b \in {b \in DOMAIN bundles :
                            found \cap Range(bundles[b].skills) # {}}}

find_bundled_skills(results, bundles) ==
    LET found == found_names(results)
    IN  UNION {Range(bundles[b].skills) \ found :
                  b \in {b \in DOMAIN bundles :
                            found \cap Range(bundles[b].skills) # {}}}

(***************************************************************************)
(* Presentation.                                                           *)
(***************************************************************************)

\* A variant of FilteredTail with a window of 10 points.
FilteredTail_window_10(match, top_score) ==
    \/ RatLess(match.score, Whole(NOISE_THRESHOLD))
    \/ RatLess(match.score, RatSub(top_score, Whole(10)))

\* The test of print_console_summary's inner loop ("Filter tail"): the
\* match is not printed.
FilteredTail(match, top_score) ==
    \/ RatLess(match.score, Whole(NOISE_THRESHOLD))
    \/ RatLess(match.score, RatSub(top_score, Whole(20)))

\* What print_console_summary writes: per printed query the matches listed
\* under it, then the sorted bundle recommendations.
print_console_summary(results, extras) ==
    [queries |->
        [entity \in {e \in DOMAIN results :
                        /\ results[e] # <<>>
                        /\ ~RatLess(results[e][1].score, Whole(NOISE_THRESHOLD))} |->
            SelectSeq(results[entity],
                      LAMBDA match : ~FilteredTail(match, results[entity][1].score))],
     bundle_recommendations |-> IF extras # {} THEN Sorted(extras) ELSE <<>>]

\* A variant of core_skills that looks at each entity's top match only.
core_skills_top_only(results) ==
    {results[e][1].skill.name :
        e \in {e \in DOMAIN results :
                  /\ results[e] # <<>>
                  /\ RatLess(Whole(HIGH_CONFIDENCE), results[e][1].score)}}

\* The core_skills set generate_report_content builds: the names of the
\* skills with a kept score above HIGH_CONFIDENCE.
core_skills(results) ==
    UNION {{results[e][i].skill.name :
               i \in {j \in DOMAIN results[e] :
                         RatLess(Whole(HIGH_CONFIDENCE), results[e][j].score)}} :
           e \in DOMAIN results}

\* skill_map = {s.name: s for s in all_skills}: the last skill of each name.
skill_map(all_skills) ==
    [name \in {all_skills[i].name : i \in DOMAIN all_skills} |->
        all_skills[CHOOSE i \in DOMAIN all_skills :
                      /\ all_skills[i].name = name
                      /\ \A j \in DOMAIN all_skills :
                            all_skills[j].name = name => j <= i]]

\* The report: the core set, the lines of the two sections (a name the
\* catalog lacks gets no line; the RECOMMENDED section iterates a set, so
\* its lines are kept as a set), and the names of the install commands.
generate_report_content(results, extras, all_skills) ==
    LET core == core_skills(results)
        map == skill_map(all_skills)
        line(name) == [name |-> name, description |-> map[name].description]
        listed == SelectSeq(Sorted(core), LAMBDA name : name \in DOMAIN map)
    IN  [core_skills |-> core,
         core_lines |-> [i \in 1..Len(listed) |-> line(listed[i])],
         recommended_lines |-> {line(name) : name \in extras \cap DOMAIN map},
         recommended_skills |-> Sorted(core \cup extras)]

(***************************************************************************)
(* The state of one run of main.                                           *)
(*   pc              where main is                                         *)
(*   skills, bundles what load_catalog_skills and load_skill_bundles gave  *)
(*   raw_text        what get_clean_input_text gave                        *)
(*   top_n, generate_report   args.top, args.report                        *)
(*   entities, valid_entities, results, extras   main's locals             *)
(*   console         what print_console_summary wrote                      *)
(*   report, report_written   SKILLS_REQUIRED.md                           *)
(*   stages          the stages performed so far, in order                 *)
(* and of one call of the scorer: query, skill, score, scored.             *)
(***************************************************************************)
VARIABLES pc, skills, bundles, raw_text, top_n, generate_report,
          entities, valid_entities, results, extras, console,
          report, report_written, stages,
          query, skill, score, scored

inputVars == <<skills, bundles, raw_text, top_n, generate_report>>

scoreVars == <<query, skill, score, scored>>

vars == <<pc, skills, bundles, raw_text, top_n, generate_report,
          entities, valid_entities, results, extras, console,
          report, report_written, stages, query, skill, score, scored>>

NoConsole == [queries |-> <<>>, bundle_recommendations |-> <<>>]

NoReport ==
    [core_skills |-> {}, core_lines |-> <<>>, recommended_lines |-> {},
     recommended_skills |-> <<>>]

(***************************************************************************)
(* The inputs of the pipeline, continued.                                  *)
(***************************************************************************)
Catalogs == UNION {[1..n -> SkillPool] : n \in 0..MaxSkills}

\* load_skill_bundles keys each Bundle by its name.
BundleMaps ==
    {[name \in {b.name : b \in B} |-> CHOOSE b \in B : b.name = name] :
        B \in SUBSET BundlePool}

Init ==
    /\ pc = "process"
    /\ skills \in Catalogs
    /\ bundles \in BundleMaps
    /\ raw_text \in TextPool
    /\ top_n \in 1..MaxTopN
    /\ generate_report \in BOOLEAN
    /\ entities = <<>>
    /\ valid_entities = <<>>
    /\ results = <<>>
    /\ extras = {}
    /\ console = NoConsole
    /\ report = NoReport
    /\ report_written = FALSE
    /\ stages = <<>>
    /\ query = <<>>
    /\ skill = Skill(<<>>, <<>>, <<>>, <<>>)
    /\ score = Whole(0)
    /\ scored = TRUE

(***************************************************************************)
(* main, stage by stage.                                                   *)
(***************************************************************************)

\* entities = extract_search_entities(raw_text)
Process ==
    /\ pc = "process"
    /\ entities' \in Orderings(extract_search_entities(raw_text))
    /\ pc' = "filter"
    /\ stages' = Append(stages, "extract")
    /\ UNCHANGED <<inputVars, valid_entities, results, extras, console,
                   report, report_written, scoreVars>>

\* A variant of AfterFilter without the early return.
AfterFilter_no_return(valid) == "search"

\* if not valid_entities: print(...); return
AfterFilter(valid) == IF valid = <<>> THEN "done" ELSE "search"

\* valid_entities = filter_valid_entities(entities, skills)
Filter ==
    /\ pc = "filter"
    /\ valid_entities' = filter_valid_entities(entities, skills)
    /\ pc' = AfterFilter(valid_entities')
    /\ stages' = Append(stages, "filter")
    /\ UNCHANGED <<inputVars, entities, results, extras, console,
                   report, report_written, scoreVars>>

\* results = search_skills(valid_entities, skills, args.top)
Search ==
    /\ pc = "search"
    /\ results' = search_skills(valid_entities, skills, top_n)
    /\ pc' = "bundle"
    /\ stages' = Append(stages, "search")
    /\ UNCHANGED <<inputVars, entities, valid_entities, extras, console,
                   report, report_written, scoreVars>>

\* extras = find_bundled_skills(results, bundles)
BundleExpansion ==
    /\ pc = "bundle"
    /\ extras' = find_bundled_skills(results, bundles)
    /\ pc' = "output"
    /\ stages' = Append(stages, "bundle")
    /\ UNCHANGED <<inputVars, entities, valid_entities, results, console,
                   report, report_written, scoreVars>>

\* print_console_summary(results, extras); if args.report: ...
Output ==
    /\ pc = "output"
    /\ console' = print_console_summary(results, extras)
    /\ pc' = IF generate_report THEN "report" ELSE "done"
    /\ stages' = Append(stages, "summary")
    /\ UNCHANGED <<inputVars, entities, valid_entities, results, extras,
                   report, report_written, scoreVars>>

\* report = generate_report_content(results, extras, skills), written to
\* SKILLS_REQUIRED.md
Report ==
    /\ pc = "report"
    /\ report' = generate_report_content(results, extras, skills)
    /\ report_written' = TRUE
    /\ pc' = "done"
    /\ stages' = Append(stages, "report")
    /\ UNCHANGED <<inputVars, entities, valid_entities, results, extras,
                   console, scoreVars>>

Next == Process \/ Filter \/ Search \/ BundleExpansion \/ Output \/ Report

Spec == Init /\ [][Next]_vars

(***************************************************************************)
(* The scorer on its own: calculate_relevance applied to one query and one *)
(* skill.  Queries are any strings of letters and hyphens; skill names are *)
(* hyphenated identifiers, which begin and end with a letter.              *)
(***************************************************************************)
QueryChars == {"a", "b", "-"}

NameChars == {"a", "b", "-"}

TriggerChars == {"a", "b"}

StringsOver(chars, n) == UNION {[1..k -> chars] : k \in 0..n}

SkillNames ==
    {name \in StringsOver(NameChars, MaxNameLen) \ {<<>>} :
        name[1] # "-" /\ name[Len(name)] # "-"}

InitScore ==
    /\ query \in StringsOver(QueryChars, MaxQueryLen)
    /\ \E name \in SkillNames,
          triggers \in StringsOver(TriggerChars, MaxTriggerLen),
          description \in {<<>>, <<"b">>} :
            skill = Skill(name, description, <<>>, triggers)
    /\ score = Whole(0)
    /\ scored = FALSE
    /\ pc = "done"
    /\ skills = <<>>
    /\ bundles = <<>>
    /\ raw_text = <<>>
    /\ top_n = 1
    /\ generate_report = FALSE
    /\ entities = <<>>
    /\ valid_entities = <<>>
    /\ results = <<>>
    /\ extras = {}
    /\ console = NoConsole
    /\ report = NoReport
    /\ report_written = FALSE
    /\ stages = <<>>

\* score = calculate_relevance(query, skill)
Score ==
    /\ ~scored
    /\ score' = calculate_relevance(query, skill)
    /\ scored' = TRUE
    /\ UNCHANGED <<pc, inputVars, entities, valid_entities, results, extras,
                   console, report, report_written, stages, query, skill>>

SpecScore == InitScore /\ [][Score]_vars

(***************************************************************************)
(* Properties.                                                             *)
(***************************************************************************)
AtLeast(x, threshold) == RatLeq(Whole(threshold), x)

Above(x, threshold) == RatLess(Whole(threshold), x)

Filtered == pc \notin {"process", "filter"}

\* main has just performed the stage.
JustDid(stage) == stages # <<>> /\ stages[Len(stages)] = stage

\* C1: every sequence search_skills stores in the Result Set is sorted
\* non-increasing by score and has at most top_n entries.
C1_SortedAndCapped ==
    \A e \in DOMAIN results :
        /\ Len(results[e]) <= top_n
        /\ \A i \in 1..(Len(results[e]) - 1) :
              RatLeq(results[e][i + 1].score, results[e][i].score)

\* A ranking that dropped a skill and had to reorder the catalog.
C1_Witness ==
    \E e \in DOMAIN results :
        /\ Len(skills) > top_n
        /\ Len(results[e]) = top_n
        /\ top_n >= 2
        /\ RatLess(results[e][2].score, results[e][1].score)
        /\ RatLess(calculate_relevance(e, skills[1]),
                   calculate_relevance(e, skills[2]))

\* C2: noise filtering keeps an entity if and only if some catalog skill
\* scores it at NOISE_THRESHOLD or more (its best score is not below the
\* threshold); with an empty catalog nothing is kept and the filter still
\* completes.
C2_NoiseFilter ==
    JustDid("filter") =>
        /\ \A e \in Range(entities) :
              e \in Range(valid_entities) <=>
                 \E i \in DOMAIN skills :
                    AtLeast(calculate_relevance(e, skills[i]), NOISE_THRESHOLD)
        /\ Range(valid_entities) \subseteq Range(entities)
        /\ skills = <<>> => valid_entities = <<>>

\* The filter kept one entity and dropped another, the kept one's best
\* match not being the first skill of the catalog.
C2_Witness ==
    /\ JustDid("filter")
    /\ \E kept \in Range(valid_entities), dropped \in Range(entities) :
          /\ dropped \notin Range(valid_entities)
          /\ ~AtLeast(calculate_relevance(kept, skills[1]), NOISE_THRESHOLD)

\* C7: the score calculate_relevance returns is in [0, 100].
C7_ScoreInRange ==
    scored => RatLeq(Whole(0), score) /\ RatLeq(score, Whole(100))

\* A query that scores exactly 100 against a skill.
C7_Witness ==
    /\ scored
    /\ query # <<>>
    /\ score = Whole(100)

FullOrder == <<"extract", "filter", "search", "bundle", "summary", "report">>

IsPrefix(s, t) == Len(s) <= Len(t) /\ SubSeq(t, 1, Len(s)) = s

\* C8: a run in which no entity survives noise filtering ends right after
\* the filter, with no ranking, no bundle expansion, no console summary and
\* no report file even when generate_report is true; every other run
\* performs noise filtering, ranking, bundle expansion and reporting in
\* this order.
C8_StageOrder ==
    /\ IsPrefix(stages, FullOrder)
    /\ (Filtered /\ stages # <<>> /\ valid_entities = <<>>) =>
          /\ pc = "done"
          /\ stages = <<"extract", "filter">>
          /\ results = <<>>
          /\ extras = {}
          /\ console = NoConsole
          /\ ~report_written
    /\ (pc = "done" /\ stages # <<>> /\ valid_entities # <<>>) =>
          /\ stages = IF generate_report THEN FullOrder
                      ELSE SubSeq(FullOrder, 1, Len(FullOrder) - 1)
          /\ report_written = generate_report

\* A run with a report requested, a catalog and entities, all of them
\* noise, at its end.
C8_Witness ==
    /\ pc = "done"
    /\ valid_entities = <<>>
    /\ entities # <<>>
    /\ skills # <<>>
    /\ generate_report

Did(stage) == \E i \in DOMAIN stages : stages[i] = stage

\* The skill of this name has a kept score above the threshold.
KeptAbove(name, threshold) ==
    \E e \in DOMAIN results : \E i \in DOMAIN results[e] :
        /\ results[e][i].skill.name = name
        /\ Above(results[e][i].score, threshold)

BundledNames == UNION {Range(bundles[b].skills) : b \in DOMAIN bundles}

\* C3: a name is in the extras set if and only if it is not a found name
\* (kept score above 65) and some bundle lists both it and a found name;
\* whether the catalog has a skill of that name plays no part.
C3_BundleExpansion ==
    Did("bundle") =>
        \A name \in BundledNames \cup extras :
            name \in extras <=>
                /\ ~KeptAbove(name, 65)
                /\ \E b \in DOMAIN bundles :
                      /\ name \in Range(bundles[b].skills)
                      /\ \E other \in Range(bundles[b].skills) : KeptAbove(other, 65)

\* Bundle expansion added a name the catalog lacks, and a bundle that
\* shares no name with the found set added nothing.
C3_Witness ==
    /\ Did("bundle")
    /\ \E name \in extras : \A i \in DOMAIN skills : skills[i].name # name
    /\ \E b \in DOMAIN bundles :
          /\ \A other \in Range(bundles[b].skills) : ~KeptAbove(other, 65)
          /\ Range(bundles[b].skills) \cap extras = {}

\* C4: the extras set has no found name (kept score above 65) and no core
\* match (kept score above HIGH_CONFIDENCE), and the report's recommended
\* skills are the core matches together with the extras.
C4_ExtrasDisjoint ==
    /\ Did("bundle") =>
          \A name \in extras :
              ~KeptAbove(name, 65) /\ ~KeptAbove(name, HIGH_CONFIDENCE)
    /\ report_written =>
          /\ \A i \in DOMAIN skills :
                KeptAbove(skills[i].name, HIGH_CONFIDENCE) =>
                    /\ skills[i].name \in report.core_skills
                    /\ skills[i].name \in Range(report.recommended_skills)
                    /\ skills[i].name \notin extras
          /\ Range(report.recommended_skills) = report.core_skills \cup extras
          /\ report.core_skills \cap extras = {}

\* A report whose bundle recommendations come from a bundle of a core match.
C4_Witness ==
    /\ report_written
    /\ \E b \in DOMAIN bundles :
          /\ Range(bundles[b].skills) \cap report.core_skills # {}
          /\ Range(bundles[b].skills) \cap extras # {}

\* The pair (e, skills[i]) is among the kept results of e.
IsKept(e, i) == \E k \in DOMAIN results[e] : results[e][k].ref = i

\* C5 as claimed: in the report, every skill that scores above
\* HIGH_CONFIDENCE against a surviving entity is a core match, whatever
\* top_n is.
C5_EveryHighScoreIsCore ==
    report_written =>
        \A e \in Range(valid_entities) : \A i \in DOMAIN skills :
            Above(calculate_relevance(e, skills[i]), HIGH_CONFIDENCE) =>
                skills[i].name \in report.core_skills

\* C5, amended: in the report, every skill that scores above
\* HIGH_CONFIDENCE against a surviving entity and is among that entity's
\* kept top_n results is a core match.
C5_KeptHighScoreIsCore ==
    report_written =>
        \A e \in Range(valid_entities) : \A i \in DOMAIN skills :
            (Above(calculate_relevance(e, skills[i]), HIGH_CONFIDENCE) /\ IsKept(e, i)) =>
                skills[i].name \in report.core_skills

\* A report with a core match that is not its entity's top match.
C5_Witness ==
    /\ report_written
    /\ \E e \in DOMAIN results : \E k \in DOMAIN results[e] :
          /\ k > 1
          /\ Above(results[e][k].score, HIGH_CONFIDENCE)
          /\ results[e][k].skill.name # results[e][1].skill.name

\* C6 as claimed: a skill's own name as the query scores above
\* HIGH_CONFIDENCE, whatever its triggers, tags and description are.
C6_OwnNameIsHighConfidence ==
    (scored /\ query = skill.name) => Above(score, HIGH_CONFIDENCE)

Ahead(score1, ref1, score2, ref2) ==
    RatLess(score2, score1) \/ (score1 = score2 /\ ref1 < ref2)

\* C9: the kept sequence is the first top_n elements of the catalog stably
\* sorted by descending score: each kept result holds a distinct catalog
\* skill with its score, a result stands before another only if it scores
\* higher or scores the same and comes earlier in the catalog, and in that
\* same order every kept skill is ahead of every skill left out.
C9_StableTopN ==
    JustDid("search") =>
        \A e \in DOMAIN results :
            LET r == results[e]
            IN  /\ Len(r) = IF top_n < Len(skills) THEN top_n ELSE Len(skills)
                /\ \A i \in DOMAIN r :
                      /\ r[i].ref \in DOMAIN skills
                      /\ r[i].skill = skills[r[i].ref]
                      /\ r[i].score = calculate_relevance(e, skills[r[i].ref])
                /\ \A i, j \in DOMAIN r :
                      i < j => Ahead(r[i].score, r[i].ref, r[j].score, r[j].ref)
                /\ \A k \in DOMAIN skills : \A i \in DOMAIN r :
                      IsKept(e, k) \/
                         Ahead(r[i].score, r[i].ref,
                               calculate_relevance(e, skills[k]), k)

\* Equal scores on both sides of the cutoff, and equal scores among the
\* kept results.
C9_Witness ==
    /\ JustDid("search")
    /\ \E e \in DOMAIN results : \E k \in DOMAIN skills :
          /\ ~IsKept(e, k)
          /\ Len(results[e]) >= 2
          /\ results[e][Len(results[e])].score = calculate_relevance(e, skills[k])
          /\ results[e][1].score = results[e][2].score

\* The matches the console summary lists under entity e are the matches
\* of the set expected, each once.
ListsExactly(e, expected) ==
    /\ e \in DOMAIN console.queries
    /\ Range(console.queries[e]) = expected
    /\ Cardinality(Range(console.queries[e])) = Len(console.queries[e])

\* The score is within 20 points of the top score.
WithinWindow(match_score, top_score) ==
    RatLeq(RatSub(top_score, Whole(20)), match_score)

HasTopAtLeastNoise(e) ==
    results[e] # <<>> /\ AtLeast(results[e][1].score, NOISE_THRESHOLD)

\* C10 as claimed: for every entity whose top score is at least
\* NOISE_THRESHOLD the console summary lists exactly the kept matches that
\* score within 20 points of the top score.
C10_ListsWindow ==
    Did("summary") =>
        \A e \in DOMAIN results :
            HasTopAtLeastNoise(e) =>
                ListsExactly(e, {results[e][i] :
                                    i \in {j \in DOMAIN results[e] :
                                              WithinWindow(results[e][j].score,
                                                           results[e][1].score)}})

SummaryAmended ==
    /\ DOMAIN console.queries = {e \in DOMAIN results : HasTopAtLeastNoise(e)}
    /\ \A e \in DOMAIN results :
          HasTopAtLeastNoise(e) =>
              ListsExactly(e, {results[e][i] :
                                  i \in {j \in DOMAIN results[e] :
                                            /\ WithinWindow(results[e][j].score,
                                                            results[e][1].score)
                                            /\ AtLeast(results[e][j].score,
                                                       NOISE_THRESHOLD)}})

\* C10, amended: for every entity whose top score is at least
\* NOISE_THRESHOLD the console summary lists exactly the kept matches that
\* score within 20 points of the top score and not below NOISE_THRESHOLD,
\* and producing the summary leaves the Result Set and the extras set
\* unchanged.
C10_ListsWindowAboveNoise ==
    [][pc = "output" =>
          /\ results' = results
          /\ extras' = extras
          /\ SummaryAmended']_vars

\* A summary that lists a match other than the top one and leaves out a
\* kept match that is within 20 points of its entity's top score.
C10_Witness ==
    /\ Did("summary")
    /\ \E e \in DOMAIN console.queries : Len(console.queries[e]) >= 2
    /\ \E e \in DOMAIN console.queries : \E i \in DOMAIN results[e] :
          /\ WithinWindow(results[e][i].score, results[e][1].score)
          /\ results[e][i] \notin Range(console.queries[e])

=============================================================================
